---- MODULE Spec2Model ----
(***************************************************************************)
(* Model of base_layer/core/src/proof_of_work/proof_of_work.rs: the        *)
(* ProofOfWork record, the achieved-difficulty dispatcher, the             *)
(* accumulation engine (new_from_difficulty / add_difficulty), the         *)
(* partial-order comparator, the total-work helper and the byte encoder.   *)
(*                                                                         *)
(* TLC integers are 32 bits wide, so a u64 is kept at its full width as    *)
(* four 16-bit limbs, least significant limb first, and a u128 as eight.   *)
(* Every arithmetic definition below works on limbs and never forms a      *)
(* number above 2^31.                                                      *)
(***************************************************************************)
EXTENDS Naturals, Sequences, FiniteSets

\* ------------------------------------------------------------------------
\* Bounds of the model.
\* ------------------------------------------------------------------------

\* Sampled magnitudes are 0..MaxLow, the values around the first limb
\* boundary, and u64::MAX - MaxLow .. u64::MAX.
MaxLow == 1

\* Longest auxiliary data (pow_data) sampled.
MaxData == 1

\* Most blocks appended to the genesis block in the chain specification.
MaxChain == 2

\* ------------------------------------------------------------------------
\* Machine integers.
\* ------------------------------------------------------------------------

\* A byte holds 0..255 (u8).
ByteBase == 256

\* A u64 is eight bytes wide.
U64Bytes == 8

LimbBase == ByteBase * ByteBase

U64Limbs == U64Bytes \div 2

U128Limbs == 2 * U64Limbs

\* A function on 1..n as the tuple of its values.
Tuple(f) == f \o <<>>

\* The u64 of a small natural n < 2^31.
U64(n) ==
    Tuple([i \in 1..U64Limbs |->
        IF i = 1 THEN n % LimbBase
        ELSE IF i = 2 THEN n \div LimbBase
        ELSE 0])

\* u64::MAX
U64Max == Tuple([i \in 1..U64Limbs |-> LimbBase - 1])

\* u64::MAX - n, for n < 2^16.
U64High(n) == [U64Max EXCEPT ![1] = LimbBase - 1 - n]

\* Ripple-carry addition of two numbers of the same width: the sum modulo
\* the width, and the carry out of the top limb.
LimbsAdd(a, b) ==
    LET n == Len(a)
        c[i \in 0..n] ==
            IF i = 0 THEN 0 ELSE (a[i] + b[i] + c[i - 1]) \div LimbBase
    IN  [sum   |-> Tuple([i \in 1..n |-> (a[i] + b[i] + c[i - 1]) % LimbBase]),
         carry |-> c[n]]

\* a < b as numbers: the most significant limb where they differ decides.
LimbsLess(a, b) ==
    \E i \in 1..Len(a) :
        /\ a[i] < b[i]
        /\ \A j \in (i + 1)..Len(a) : a[j] = b[j]

\* The bytes of a number, least significant first.
LimbsToBytes(a) ==
    Tuple([k \in 1..(2 * Len(a)) |->
        IF k % 2 = 1 THEN a[(k + 1) \div 2] % ByteBase
        ELSE a[k \div 2] \div ByteBase])

\* The number of a little-endian byte string of even length.
BytesToLimbs(s) ==
    Tuple([i \in 1..(Len(s) \div 2) |-> s[2 * i - 1] + ByteBase * s[2 * i]])

\* Schoolbook product of two byte strings of the same length n, as 2n bytes:
\* column k adds the byte products a[i] * b[k + 1 - i] and the carry of
\* column k - 1.
BytesMul(a, b) ==
    LET n == Len(a)
        column[k \in 1..(2 * n)] ==
            LET t[i \in 0..n] ==
                    IF i = 0 THEN 0
                    ELSE t[i - 1]
                         + (IF i <= k /\ k + 1 - i <= n THEN a[i] * b[k + 1 - i] ELSE 0)
            IN  t[n]
        s[k \in 0..(2 * n)] ==
            IF k = 0 THEN [carry |-> 0, bytes |-> <<>>]
            ELSE CHOOSE r \in
                    {[carry |-> (column[k] + p.carry) \div ByteBase,
                      bytes |-> Append(p.bytes, (column[k] + p.carry) % ByteBase)] :
                        p \in {s[k - 1]}} : TRUE
    IN  s[2 * n].bytes

\* `x as u128`: zero extension of a u64.
AsU128(n) == Tuple([i \in 1..U128Limbs |-> IF i <= U64Limbs THEN n[i] ELSE 0])

\* u128 * u128: the low 128 bits of the product, and whether the product
\* needed more than 128 bits.
U128MulLimbs(a, b) ==
    CHOOSE r \in
        {[value    |-> SubSeq(full, 1, U128Limbs),
          overflow |-> \E i \in (U128Limbs + 1)..(2 * U128Limbs) : full[i] # 0] :
            full \in {BytesToLimbs(BytesMul(LimbsToBytes(a), LimbsToBytes(b)))}} :
        TRUE

\* The magnitudes the specifications sample.
DifficultySamples ==
    {U64(n) : n \in 0..MaxLow}
        \cup {U64(LimbBase - 1), U64(LimbBase)}
        \cup {U64High(n) : n \in 0..MaxLow}

\* The products of the sampled magnitudes, computed once: each entry holds
\* the two operands and their product.
U128MulSampled ==
    {[operands |-> <<AsU128(c), AsU128(d)>>,
      product  |-> U128MulLimbs(AsU128(c), AsU128(d))] :
        c \in DifficultySamples, d \in DifficultySamples}

U128MulOf(operands) ==
    IF \E e \in U128MulSampled : e.operands = operands
    THEN (CHOOSE e \in U128MulSampled : e.operands = operands).product
    ELSE U128MulLimbs(operands[1], operands[2])

U128Mul(a, b) ==
    CHOOSE r \in {U128MulOf(operands) : operands \in {<<a, b>>}} : TRUE

\* ------------------------------------------------------------------------
\* Difficulty: a u64 newtype (Default, Add, PartialEq, PartialOrd).
\* ------------------------------------------------------------------------

\* Difficulty::default(): test::display prints a default record's target and
\* accumulators as 1.
DifficultyDefault == U64(1)

\* Difficulty + Difficulty: the sum, or a fatal failure when it does not fit
\* 64 bits.
DifficultyAddWrapping(a, b) ==
    [tag |-> "Ok", val |-> LimbsAdd(a, b).sum]

DifficultyAdd(a, b) ==
    LET r == LimbsAdd(a, b)
    IN  IF r.carry # 0 THEN [tag |-> "Panic", val |-> a]
        ELSE [tag |-> "Ok", val |-> r.sum]

DifficultyLe(a, b) == a = b \/ LimbsLess(a, b)

DifficultyGe(a, b) == a = b \/ LimbsLess(b, a)

\* ------------------------------------------------------------------------
\* PowAlgorithm and ProofOfWork.
\* ------------------------------------------------------------------------

PowAlgorithm == {"Monero", "Blake", "Sha3"}

\* Ordering: the four results of partial_cmp.
Ordering == {"GreaterThan", "LessThan", "Equal", "Indeterminate"}

\* The struct's five fields.
ProofOfWork(m, b, t, algo, data) ==
    [accumulated_monero_difficulty |-> m,
     accumulated_blake_difficulty  |-> b,
     target_difficulty             |-> t,
     pow_algo                      |-> algo,
     pow_data                      |-> data]

\* impl Default for ProofOfWork
ProofOfWorkDefault ==
    ProofOfWork(DifficultyDefault, DifficultyDefault, DifficultyDefault, "Blake", <<>>)

\* new with every Difficulty at zero.
new_zeroed(pow_algo) ==
    ProofOfWork(U64(0), U64(0), U64(0), pow_algo, <<>>)

\* ProofOfWork::new(pow_algo)
new(pow_algo) ==
    ProofOfWork(DifficultyDefault, DifficultyDefault, DifficultyDefault, pow_algo, <<>>)

\* ------------------------------------------------------------------------
\* State.
\* ------------------------------------------------------------------------

VARIABLES
    discriminant,   \* `pow_algo as u8` of each PowAlgorithm variant
    provider,       \* what each difficulty provider returns for the header
    x, y,           \* the records the calls are made on
    added,          \* the added_difficulty argument
    cmp_xy, cmp_yx, \* x.partial_cmp(&y), y.partial_cmp(&x)
    total_x, total_y, \* total_accumulated_difficulty of x, of y
    derived,        \* ProofOfWork::new_from_difficulty(&x, added)
    applied,        \* y after y.add_difficulty(&x, added)
    fresh,          \* ProofOfWork::new(algo)
    enc_x, enc_y,   \* x.to_bytes(), y.to_bytes()
    achieved,       \* ProofOfWork::achieved_difficulty(&header), header.pow = x
    chain,          \* the records of the blocks from genesis to the tip
    diffs,          \* diffs[k]: the achieved difficulty of block k
    panicked        \* a fatal failure ended the process

vars ==
    <<discriminant, provider, x, y, added, cmp_xy, cmp_yx, total_x, total_y,
      derived, applied, fresh, enc_x, enc_y, achieved, chain, diffs, panicked>>

\* A call that has not been made.
None == [tag |-> "None"]

\* ------------------------------------------------------------------------
\* impl ProofOfWork
\* ------------------------------------------------------------------------

\* The three providers, as the header in hand makes them answer:
\* monero_difficulty returns a Result, blake_difficulty and sha3_difficulty a
\* Difficulty.
monero_difficulty(header) == provider.Monero

blake_difficulty(header) == provider.Blake

sha3_difficulty(header) == provider.Sha3

\* `?` on a provider error: the From conversion into PowError.
PowErrorFrom(e) == [pow_error |-> e]

\* ProofOfWork::achieved_difficulty(header): the result, and the providers
\* it called.
achieved_difficulty_default_on_error(header) ==
    CASE header.pow.pow_algo = "Monero" ->
            LET r == monero_difficulty(header)
            IN  [calls |-> <<"monero_difficulty">>,
                 ret   |-> IF r.tag = "Err"
                           THEN [tag |-> "Ok", val |-> DifficultyDefault]
                           ELSE [tag |-> "Ok", val |-> r.val]]
      [] header.pow.pow_algo = "Blake" ->
            [calls |-> <<"blake_difficulty">>,
             ret   |-> [tag |-> "Ok", val |-> blake_difficulty(header)]]
      [] header.pow.pow_algo = "Sha3" ->
            [calls |-> <<"sha3_difficulty">>,
             ret   |-> [tag |-> "Ok", val |-> sha3_difficulty(header)]]

achieved_difficulty(header) ==
    CASE header.pow.pow_algo = "Monero" ->
            LET r == monero_difficulty(header)
            IN  [calls |-> <<"monero_difficulty">>,
                 ret   |-> IF r.tag = "Err"
                           THEN [tag |-> "Err", val |-> PowErrorFrom(r.val)]
                           ELSE [tag |-> "Ok", val |-> r.val]]
      [] header.pow.pow_algo = "Blake" ->
            [calls |-> <<"blake_difficulty">>,
             ret   |-> [tag |-> "Ok", val |-> blake_difficulty(header)]]
      [] header.pow.pow_algo = "Sha3" ->
            [calls |-> <<"sha3_difficulty">>,
             ret   |-> [tag |-> "Ok", val |-> sha3_difficulty(header)]]

\* The product formed in 64 bits and widened afterwards.
total_accumulated_difficulty_narrow(self) ==
    [value    |-> AsU128(SubSeq(
                     U128MulLimbs(AsU128(self.accumulated_monero_difficulty),
                                  AsU128(self.accumulated_blake_difficulty)).value,
                     1, U64Limbs)),
     overflow |-> FALSE]

\* self.total_accumulated_difficulty(): both accumulators widened to u128,
\* then multiplied.
total_accumulated_difficulty(self) ==
    U128Mul(AsU128(self.accumulated_monero_difficulty),
            AsU128(self.accumulated_blake_difficulty))

\* new_from_difficulty on a fresh record: the target and the auxiliary data
\* are not copied.
new_from_difficulty_fresh(pow, added_difficulty) ==
    LET sum ==
            IF pow.pow_algo = "Monero"
            THEN DifficultyAdd(pow.accumulated_monero_difficulty, added_difficulty)
            ELSE DifficultyAdd(pow.accumulated_blake_difficulty, added_difficulty)
    IN  IF sum.tag = "Panic" THEN [tag |-> "Panic", val |-> pow]
        ELSE [tag |-> "Ok",
              val |-> IF pow.pow_algo = "Monero"
                      THEN ProofOfWork(sum.val, pow.accumulated_blake_difficulty,
                                       DifficultyDefault, pow.pow_algo, <<>>)
                      ELSE ProofOfWork(pow.accumulated_monero_difficulty, sum.val,
                                       DifficultyDefault, pow.pow_algo, <<>>)]

\* new_from_difficulty with Sha3 work added to the Monero accumulator.
new_from_difficulty_sha3_to_monero(pow, added_difficulty) ==
    LET sum ==
            CASE pow.pow_algo = "Monero" ->
                    DifficultyAdd(pow.accumulated_monero_difficulty, added_difficulty)
              [] pow.pow_algo = "Blake" ->
                    DifficultyAdd(pow.accumulated_blake_difficulty, added_difficulty)
              [] pow.pow_algo = "Sha3" ->
                    DifficultyAdd(pow.accumulated_monero_difficulty, added_difficulty)
        mb ==
            CASE pow.pow_algo = "Monero" ->
                    <<sum.val, pow.accumulated_blake_difficulty>>
              [] pow.pow_algo = "Blake" ->
                    <<pow.accumulated_monero_difficulty, sum.val>>
              [] pow.pow_algo = "Sha3" ->
                    <<sum.val, pow.accumulated_blake_difficulty>>
    IN  IF sum.tag = "Panic" THEN [tag |-> "Panic", val |-> pow]
        ELSE [tag |-> "Ok",
              val |-> ProofOfWork(mb[1], mb[2], pow.target_difficulty,
                                  pow.pow_algo, pow.pow_data)]

\* ProofOfWork::new_from_difficulty(pow, added_difficulty)
new_from_difficulty(pow, added_difficulty) ==
    LET sum ==
            CASE pow.pow_algo = "Monero" ->
                    DifficultyAdd(pow.accumulated_monero_difficulty, added_difficulty)
              [] pow.pow_algo = "Blake" ->
                    DifficultyAdd(pow.accumulated_blake_difficulty, added_difficulty)
              [] pow.pow_algo = "Sha3" ->
                    DifficultyAdd(pow.accumulated_blake_difficulty, added_difficulty)
        mb ==
            CASE pow.pow_algo = "Monero" ->
                    <<sum.val, pow.accumulated_blake_difficulty>>
              [] pow.pow_algo = "Blake" ->
                    <<pow.accumulated_monero_difficulty, sum.val>>
              [] pow.pow_algo = "Sha3" ->
                    <<pow.accumulated_monero_difficulty, sum.val>>
    IN  IF sum.tag = "Panic" THEN [tag |-> "Panic", val |-> pow]
        ELSE [tag |-> "Ok",
              val |-> ProofOfWork(mb[1], mb[2], pow.target_difficulty,
                                  pow.pow_algo, pow.pow_data)]

\* add_difficulty counting the difficulty in both accumulators.
add_difficulty_both(self, prev, added_difficulty) ==
    LET sm == DifficultyAdd(prev.accumulated_monero_difficulty, added_difficulty)
        sb == DifficultyAdd(prev.accumulated_blake_difficulty, added_difficulty)
    IN  IF sm.tag = "Panic" \/ sb.tag = "Panic"
        THEN [tag |-> "Panic", val |-> self]
        ELSE [tag |-> "Ok",
              val |-> [self EXCEPT
                  !.accumulated_blake_difficulty = sb.val,
                  !.accumulated_monero_difficulty = sm.val]]

\* add_difficulty assigning only the accumulator of prev's algorithm.
add_difficulty_selected_only(self, prev, added_difficulty) ==
    LET pow == new_from_difficulty(prev, added_difficulty)
    IN  IF pow.tag = "Panic" THEN [tag |-> "Panic", val |-> self]
        ELSE [tag |-> "Ok",
              val |-> IF prev.pow_algo = "Monero"
                      THEN [self EXCEPT !.accumulated_monero_difficulty =
                                pow.val.accumulated_monero_difficulty]
                      ELSE [self EXCEPT !.accumulated_blake_difficulty =
                                pow.val.accumulated_blake_difficulty]]

\* add_difficulty with the accumulator chosen by self's algorithm.
add_difficulty_by_self(self, prev, added_difficulty) ==
    LET pow == new_from_difficulty([prev EXCEPT !.pow_algo = self.pow_algo],
                                   added_difficulty)
    IN  IF pow.tag = "Panic" THEN [tag |-> "Panic", val |-> self]
        ELSE [tag |-> "Ok",
              val |-> [self EXCEPT
                  !.accumulated_blake_difficulty =
                      pow.val.accumulated_blake_difficulty,
                  !.accumulated_monero_difficulty =
                      pow.val.accumulated_monero_difficulty]]

\* self.add_difficulty(prev, added_difficulty): self after the call. A
\* failure inside new_from_difficulty unwinds before self is written.
add_difficulty(self, prev, added_difficulty) ==
    LET pow == new_from_difficulty(prev, added_difficulty)
    IN  IF pow.tag = "Panic" THEN [tag |-> "Panic", val |-> self]
        ELSE [tag |-> "Ok",
              val |-> [self EXCEPT
                  !.accumulated_blake_difficulty =
                      pow.val.accumulated_blake_difficulty,
                  !.accumulated_monero_difficulty =
                      pow.val.accumulated_monero_difficulty]]

\* partial_cmp resolved into a total order by the Monero accumulator.
partial_cmp_by_monero(self, other) ==
    IF /\ self.accumulated_blake_difficulty = other.accumulated_blake_difficulty
       /\ self.accumulated_monero_difficulty = other.accumulated_monero_difficulty
    THEN "Equal"
    ELSE IF DifficultyLe(self.accumulated_monero_difficulty,
                         other.accumulated_monero_difficulty)
    THEN "LessThan"
    ELSE "GreaterThan"

\* partial_cmp with its second test joined by "or".
partial_cmp_either(self, other) ==
    IF /\ self.accumulated_blake_difficulty = other.accumulated_blake_difficulty
       /\ self.accumulated_monero_difficulty = other.accumulated_monero_difficulty
    THEN "Equal"
    ELSE IF \/ DifficultyLe(self.accumulated_blake_difficulty,
                            other.accumulated_blake_difficulty)
            \/ DifficultyLe(self.accumulated_monero_difficulty,
                            other.accumulated_monero_difficulty)
    THEN "LessThan"
    ELSE IF /\ DifficultyGe(self.accumulated_blake_difficulty,
                            other.accumulated_blake_difficulty)
            /\ DifficultyGe(self.accumulated_monero_difficulty,
                            other.accumulated_monero_difficulty)
    THEN "GreaterThan"
    ELSE "Indeterminate"

\* partial_cmp with strict comparisons in its second test.
DifficultyLt(a, b) == LimbsLess(a, b)

partial_cmp_strict(self, other) ==
    IF /\ self.accumulated_blake_difficulty = other.accumulated_blake_difficulty
       /\ self.accumulated_monero_difficulty = other.accumulated_monero_difficulty
    THEN "Equal"
    ELSE IF /\ DifficultyLt(self.accumulated_blake_difficulty,
                            other.accumulated_blake_difficulty)
            /\ DifficultyLt(self.accumulated_monero_difficulty,
                            other.accumulated_monero_difficulty)
    THEN "LessThan"
    ELSE IF /\ DifficultyGe(self.accumulated_blake_difficulty,
                            other.accumulated_blake_difficulty)
            /\ DifficultyGe(self.accumulated_monero_difficulty,
                            other.accumulated_monero_difficulty)
    THEN "GreaterThan"
    ELSE "Indeterminate"

\* self.partial_cmp(other)
partial_cmp(self, other) ==
    IF /\ self.accumulated_blake_difficulty = other.accumulated_blake_difficulty
       /\ self.accumulated_monero_difficulty = other.accumulated_monero_difficulty
    THEN "Equal"
    ELSE IF /\ DifficultyLe(self.accumulated_blake_difficulty,
                            other.accumulated_blake_difficulty)
            /\ DifficultyLe(self.accumulated_monero_difficulty,
                            other.accumulated_monero_difficulty)
    THEN "LessThan"
    ELSE IF /\ DifficultyGe(self.accumulated_blake_difficulty,
                            other.accumulated_blake_difficulty)
            /\ DifficultyGe(self.accumulated_monero_difficulty,
                            other.accumulated_monero_difficulty)
    THEN "GreaterThan"
    ELSE "Indeterminate"

\* BufMut::put_u8, put_u64_le, put_slice on a Vec<u8>.
put_u8(buf, n) == Append(buf, n)

\* put_u64 in big-endian order.
put_u64_be(buf, n) ==
    LET le == LimbsToBytes(n)
    IN  buf \o [i \in 1..Len(le) |-> le[Len(le) + 1 - i]]

put_u64_le(buf, n) == buf \o LimbsToBytes(n)

put_slice(buf, src) == buf \o src

\* to_bytes without the discriminant byte.
to_bytes_untagged(self) ==
    LET b2 == put_u64_le(<<>>, self.accumulated_monero_difficulty)
        b3 == put_u64_le(b2, self.accumulated_blake_difficulty)
    IN  put_slice(b3, self.pow_data)

\* self.to_bytes()
to_bytes(self) ==
    LET b1 == put_u8(<<>>, discriminant[self.pow_algo])
        b2 == put_u64_le(b1, self.accumulated_monero_difficulty)
        b3 == put_u64_le(b2, self.accumulated_blake_difficulty)
    IN  put_slice(b3, self.pow_data)

\* ------------------------------------------------------------------------
\* Sampled inputs.
\* ------------------------------------------------------------------------

\* Byte strings of length up to MaxData over the bytes 0 and 255.
DataSamples ==
    UNION {[1..n -> {0, ByteBase - 1}] : n \in 0..MaxData}

\* The discriminants in declaration order; the source shows only Blake's
\* (test::to_bytes: 1).
DeclaredDiscriminants == [Monero |-> 0, Blake |-> 1, Sha3 |-> 2]

\* Nothing is asked of the providers.
IdleProvider ==
    [Monero |-> [tag |-> "Ok", val |-> DifficultyDefault],
     Blake  |-> DifficultyDefault,
     Sha3   |-> DifficultyDefault]

\* The variables a specification does not use stay as they start.
NoCalls ==
    /\ cmp_xy = None /\ cmp_yx = None
    /\ total_x = None /\ total_y = None
    /\ derived = None /\ applied = None /\ fresh = None
    /\ enc_x = None /\ enc_y = None
    /\ achieved = None

NoChain ==
    /\ chain = <<>>
    /\ diffs = <<>>
    /\ panicked = FALSE

inputs == <<discriminant, provider, x, y, added>>

chainVars == <<chain, diffs, panicked>>

\* ------------------------------------------------------------------------
\* SpecCmp: the comparator and the total-work helper on two records.
\* ------------------------------------------------------------------------

\* Records that differ in every field the comparator must not read.
CmpRecords ==
    {ProofOfWork(m, b, U64(1), "Blake", <<>>) : m, b \in DifficultySamples}
        \cup {ProofOfWork(m, b, U64(2), "Monero", <<ByteBase - 1>>) :
                m, b \in DifficultySamples}

InitCmp ==
    /\ discriminant = DeclaredDiscriminants
    /\ provider = IdleProvider
    /\ x \in CmpRecords
    /\ y \in CmpRecords
    /\ added = U64(0)
    /\ NoCalls
    /\ NoChain

PartialCmpXY ==
    /\ cmp_xy' = [tag |-> "Ok", val |-> partial_cmp(x, y)]
    /\ UNCHANGED <<inputs, chainVars, cmp_yx, total_x, total_y, derived,
                   applied, fresh, enc_x, enc_y, achieved>>

PartialCmpYX ==
    /\ cmp_yx' = [tag |-> "Ok", val |-> partial_cmp(y, x)]
    /\ UNCHANGED <<inputs, chainVars, cmp_xy, total_x, total_y, derived,
                   applied, fresh, enc_x, enc_y, achieved>>

TotalX ==
    /\ total_x' = [tag |-> "Ok", val |-> total_accumulated_difficulty(x)]
    /\ UNCHANGED <<inputs, chainVars, cmp_xy, cmp_yx, total_y, derived,
                   applied, fresh, enc_x, enc_y, achieved>>

TotalY ==
    /\ total_y' = [tag |-> "Ok", val |-> total_accumulated_difficulty(y)]
    /\ UNCHANGED <<inputs, chainVars, cmp_xy, cmp_yx, total_x, derived,
                   applied, fresh, enc_x, enc_y, achieved>>

NextCmp == PartialCmpXY \/ PartialCmpYX \/ TotalX \/ TotalY

SpecCmp == InitCmp /\ [][NextCmp]_vars

\* ------------------------------------------------------------------------
\* SpecTotal: the total-work helper on one record.
\* ------------------------------------------------------------------------

\* The magnitudes of test::total_difficulty: 500, 100, 50, 1000, 444,
\* 1_555_222_888_555_555 and 15_222_333_444_555_666_777.
TestMagnitudes ==
    {U64(500), U64(100), U64(50), U64(1000), U64(444),
     <<42019, 35793, 34423, 5>>, <<62809, 53065, 38813, 54080>>}

TotalRecords ==
    {ProofOfWork(m, b, U64(1), "Blake", <<>>) :
        m, b \in DifficultySamples \cup TestMagnitudes}

InitTotal ==
    /\ discriminant = DeclaredDiscriminants
    /\ provider = IdleProvider
    /\ x \in TotalRecords
    /\ y = ProofOfWorkDefault
    /\ added = U64(0)
    /\ NoCalls
    /\ NoChain

NextTotal == TotalX

SpecTotal == InitTotal /\ [][NextTotal]_vars

\* ------------------------------------------------------------------------
\* Claims about the comparator and the total-work helper.
\* ------------------------------------------------------------------------

\* a < b and a <= b as numbers.
Less(a, b) == LimbsLess(a, b)

Leq(a, b) == a = b \/ LimbsLess(a, b)

\* C1: partial_cmp(a, b) returns exactly one of the four results, decided by
\* the two accumulators alone: Equal iff both accumulators are equal;
\* LessThan iff a's are <= b's in both dimensions and not both equal;
\* GreaterThan iff a's are >= b's in both dimensions and not both equal;
\* Indeterminate iff one dimension is strictly greater in a and the other
\* strictly greater in b. (100,0) against (0,50) is Indeterminate both ways
\* and (200,80) against (110,50) is GreaterThan.
C1_PartialCmpClassifies ==
    /\ cmp_xy.tag = "Ok" =>
        LET am == x.accumulated_monero_difficulty
            ab == x.accumulated_blake_difficulty
            bm == y.accumulated_monero_difficulty
            bb == y.accumulated_blake_difficulty
            bothEqual == am = bm /\ ab = bb
            r == cmp_xy.val
        IN  /\ r \in Ordering
            /\ (r = "Equal") <=> bothEqual
            /\ (r = "LessThan") <=> (Leq(am, bm) /\ Leq(ab, bb) /\ ~bothEqual)
            /\ (r = "GreaterThan") <=> (Leq(bm, am) /\ Leq(bb, ab) /\ ~bothEqual)
            /\ (r = "Indeterminate") <=>
                    \/ Less(bm, am) /\ Less(ab, bb)
                    \/ Less(am, bm) /\ Less(bb, ab)
    /\ LET P(m, b) == ProofOfWork(U64(m), U64(b), U64(1), "Blake", <<>>)
       IN  /\ partial_cmp(P(100, 0), P(0, 50)) = "Indeterminate"
           /\ partial_cmp(P(0, 50), P(100, 0)) = "Indeterminate"
           /\ partial_cmp(P(200, 80), P(110, 50)) = "GreaterThan"

\* The comparator has answered Indeterminate for two records that differ in
\* algorithm, target and auxiliary data as well.
C1_Witness ==
    /\ cmp_xy.tag = "Ok"
    /\ cmp_xy.val = "Indeterminate"
    /\ x.pow_algo # y.pow_algo

\* C9: partial_cmp(R1, R2) is GreaterThan if and only if partial_cmp(R2, R1)
\* is LessThan, and partial_cmp(R, R) is Equal for every R.
C9_Antisymmetric ==
    /\ (cmp_xy.tag = "Ok" /\ cmp_yx.tag = "Ok") =>
            ((cmp_xy.val = "GreaterThan") <=> (cmp_yx.val = "LessThan"))
    /\ (cmp_xy.tag = "Ok" /\ x = y) => cmp_xy.val = "Equal"
    /\ (cmp_yx.tag = "Ok" /\ x = y) => cmp_yx.val = "Equal"

\* Both directions have been compared and the first is GreaterThan.
C9_Witness ==
    /\ cmp_xy.tag = "Ok"
    /\ cmp_yx.tag = "Ok"
    /\ cmp_xy.val = "GreaterThan"
    /\ cmp_yx.val = "LessThan"

\* The residue of a number modulo a prime p < 2^15, by Horner's rule from
\* the most significant limb.
LimbsMod(a, p) ==
    LET n == Len(a)
        r[i \in 0..n] ==
            IF i = 0 THEN 0
            ELSE (r[i - 1] * (LimbBase % p) + a[n + 1 - i]) % p
    IN  r[n]

\* Nine primes whose product exceeds 2^128: a number below 2^128 is fixed by
\* its residues modulo them.
CheckPrimes ==
    {32749, 32719, 32717, 32713, 32707, 32693, 32687, 32653, 32647}

AccRecords ==
    {ProofOfWork(m, b, U64(1), algo, <<>>) :
        m, b \in DifficultySamples, algo \in PowAlgorithm}
        \cup {ProofOfWork(m, b, U64(2), algo, <<ByteBase - 1>>) :
                m, b \in DifficultySamples, algo \in PowAlgorithm}

\* Working records, one per algorithm, whose fields differ from the
\* predecessors'.
SelfRecords ==
    {ProofOfWorkDefault,
     ProofOfWork(U64(0), U64Max, U64(LimbBase), "Monero", <<0>>),
     ProofOfWork(U64Max, U64(0), U64(3), "Sha3", <<ByteBase - 1, 0>>)}

InitAcc ==
    /\ discriminant = DeclaredDiscriminants
    /\ provider = IdleProvider
    /\ x \in AccRecords
    /\ y \in SelfRecords
    /\ added \in DifficultySamples
    /\ NoCalls
    /\ NoChain

\* ProofOfWork::new(algo)
New ==
    /\ ~panicked
    /\ \E algo \in PowAlgorithm :
        fresh' = [tag |-> "Ok", arg |-> algo, val |-> new(algo)]
    /\ UNCHANGED <<inputs, chainVars, cmp_xy, cmp_yx, total_x, total_y,
                   derived, applied, enc_x, enc_y, achieved>>

\* ProofOfWork::new_from_difficulty(&x, added); a fatal failure ends the
\* process.
NewFromDifficulty ==
    /\ ~panicked
    /\ derived' = new_from_difficulty(x, added)
    /\ panicked' = (derived'.tag = "Panic")
    /\ UNCHANGED <<inputs, chain, diffs, cmp_xy, cmp_yx, total_x, total_y,
                   applied, fresh, enc_x, enc_y, achieved>>

\* y.add_difficulty(&x, added): `applied` is y after the call.
AddDifficulty ==
    /\ ~panicked
    /\ applied' = add_difficulty(y, x, added)
    /\ panicked' = (applied'.tag = "Panic")
    /\ UNCHANGED <<inputs, chain, diffs, cmp_xy, cmp_yx, total_x, total_y,
                   derived, fresh, enc_x, enc_y, achieved>>

NextAcc == New \/ NewFromDifficulty \/ AddDifficulty

SpecAcc == InitAcc /\ [][NextAcc]_vars

\* ------------------------------------------------------------------------
\* Claims about the accumulation engine.
\* ------------------------------------------------------------------------

\* u64::MAX - a, limb by limb.
Complement(a) == [i \in 1..Len(a) |-> LimbBase - 1 - a[i]]

\* a + m exceeds u64::MAX: m is above the room a leaves.
Exceeds(a, m) == Less(Complement(a), m)

\* s = a + m as numbers: s, a and m are below 2^64 and s has the residue of
\* a + m modulo each of the CheckPrimes.
IsSum(s, a, m) ==
    \A p \in CheckPrimes :
        LimbsMod(s, p) = (LimbsMod(a, p) + LimbsMod(m, p)) % p

\* The accumulator a record keeps under the name of an algorithm.
AccumulatorOf(pow, algo) ==
    IF algo = "Monero" THEN pow.accumulated_monero_difficulty
    ELSE pow.accumulated_blake_difficulty

\* The accumulator new_from_difficulty adds to.
Selected(pow) ==
    IF pow.pow_algo = "Monero" THEN pow.accumulated_monero_difficulty
    ELSE pow.accumulated_blake_difficulty

\* C2 as stated: for R's algorithm A any of the three tags and a sum within
\* 64 bits, the result's accumulator for A is R's plus M and the accumulator
\* of every algorithm other than A is R's. The record names two
\* accumulators, Monero and Blake.
C2_AsStated ==
    derived.tag = "Ok" =>
        /\ x.pow_algo \in {"Monero", "Blake"} =>
                IsSum(AccumulatorOf(derived.val, x.pow_algo),
                      AccumulatorOf(x, x.pow_algo), added)
        /\ \A other \in {"Monero", "Blake"} \ {x.pow_algo} :
                AccumulatorOf(derived.val, other) = AccumulatorOf(x, other)

\* C2 (amended): for every record R and magnitude M whose sum stays within 64
\* bits, new_from_difficulty(R, M) returns a record in which, when R's
\* algorithm is Monero, the Monero accumulator is R's plus M and the Blake
\* accumulator is R's, and when R's algorithm is Blake or Sha3, the Blake
\* accumulator is R's plus M and the Monero accumulator is R's: Sha3 has no
\* accumulator of its own. (monero=420, blake=42) under Monero with M = 80
\* gives (monero=500, blake=42).
C2_DeriveNextAdds ==
    /\ (derived.tag # "None" /\ ~Exceeds(Selected(x), added)) =>
        /\ derived.tag = "Ok"
        /\ x.pow_algo = "Monero" =>
            /\ IsSum(derived.val.accumulated_monero_difficulty,
                     x.accumulated_monero_difficulty, added)
            /\ derived.val.accumulated_blake_difficulty =
                    x.accumulated_blake_difficulty
        /\ x.pow_algo \in {"Blake", "Sha3"} =>
            /\ IsSum(derived.val.accumulated_blake_difficulty,
                     x.accumulated_blake_difficulty, added)
            /\ derived.val.accumulated_monero_difficulty =
                    x.accumulated_monero_difficulty
    /\ LET r == new_from_difficulty(
                    ProofOfWork(U64(420), U64(42), U64(1), "Monero", <<>>), U64(80))
       IN  /\ r.tag = "Ok"
           /\ r.val.accumulated_monero_difficulty = U64(500)
           /\ r.val.accumulated_blake_difficulty = U64(42)

\* A Sha3 predecessor has had a non-zero difficulty added: the sum carried
\* out of the first limb of the Blake accumulator.
C2_Witness ==
    /\ derived.tag = "Ok"
    /\ x.pow_algo = "Sha3"
    /\ x.accumulated_blake_difficulty = U64(LimbBase - 1)
    /\ added = U64(1)
    /\ derived.val.accumulated_blake_difficulty = U64(LimbBase)

\* C3: when the accumulator selected by the predecessor's algorithm plus
\* added_difficulty exceeds the 64-bit unsigned maximum, new_from_difficulty
\* and add_difficulty fail fatally and yield no record: no accumulator holds
\* the wrapped or the saturated sum, and the working record is left as it
\* was.
C3_OverflowIsFatal ==
    /\ (derived.tag # "None" /\ Exceeds(Selected(x), added)) =>
            (derived.tag = "Panic" /\ panicked)
    /\ (applied.tag # "None" /\ Exceeds(Selected(x), added)) =>
            (applied.tag = "Panic" /\ panicked /\ applied.val = y)
    /\ panicked => Exceeds(Selected(x), added)

\* add_difficulty was called with u64::MAX in the selected accumulator and a
\* non-zero difficulty, and failed.
C3_Witness ==
    /\ applied.tag = "Panic"
    /\ Selected(x) = U64Max
    /\ added = U64(1)
    /\ panicked

\* new_from_difficulty failed on an overflow.
C3_WitnessDerive ==
    /\ derived.tag = "Panic"
    /\ Exceeds(Selected(x), added)

\* C6: after self.add_difficulty(prev, M), self's two accumulators are those
\* of new_from_difficulty(prev, M), self's target_difficulty, pow_algo and
\* pow_data are the values self had before the call, and the accumulator that
\* grew is chosen by prev's algorithm, not by self's. prev is borrowed
\* immutably: the call cannot write it.
C6_ApplyInPlace ==
    /\ applied.tag = "Ok" =>
        LET n == new_from_difficulty(x, added)
            after == applied.val
        IN  /\ n.tag = "Ok"
            /\ after.accumulated_monero_difficulty =
                    n.val.accumulated_monero_difficulty
            /\ after.accumulated_blake_difficulty =
                    n.val.accumulated_blake_difficulty
            /\ after.target_difficulty = y.target_difficulty
            /\ after.pow_algo = y.pow_algo
            /\ after.pow_data = y.pow_data
            /\ x.pow_algo = "Monero" =>
                /\ IsSum(after.accumulated_monero_difficulty,
                         x.accumulated_monero_difficulty, added)
                /\ after.accumulated_blake_difficulty =
                        x.accumulated_blake_difficulty
            /\ x.pow_algo # "Monero" =>
                /\ IsSum(after.accumulated_blake_difficulty,
                         x.accumulated_blake_difficulty, added)
                /\ after.accumulated_monero_difficulty =
                        x.accumulated_monero_difficulty
    /\ LET prev == ProofOfWork(U64(420), U64(42), U64(1), "Monero", <<>>)
           r == add_difficulty(ProofOfWorkDefault, prev, U64(80))
       IN  /\ r.tag = "Ok"
           /\ r.val = ProofOfWork(U64(500), U64(42), U64(1), "Blake", <<>>)

\* A Monero working record took its accumulators from a Blake predecessor:
\* the Blake accumulator grew and the record kept its own algorithm, target
\* and auxiliary data, which differ from the predecessor's.
C6_Witness ==
    /\ applied.tag = "Ok"
    /\ y.pow_algo = "Monero"
    /\ x.pow_algo = "Blake"
    /\ added = U64(1)
    /\ applied.val.accumulated_blake_difficulty # x.accumulated_blake_difficulty
    /\ applied.val.accumulated_monero_difficulty = x.accumulated_monero_difficulty
    /\ applied.val.pow_algo = "Monero"
    /\ applied.val.target_difficulty # x.target_difficulty
    /\ applied.val.pow_data # x.pow_data

\* ------------------------------------------------------------------------
\* SpecAch: the dispatcher on a header whose proof-of-work record is x,
\* against every outcome of the three providers.
\* ------------------------------------------------------------------------

\* The failures the Monero provider reports.
ProviderErrors == {"MergeMineError", "HexError"}

ProviderOutcomes ==
    [Monero : {[tag |-> "Ok", val |-> d] : d \in DifficultySamples}
                \cup {[tag |-> "Err", val |-> e] : e \in ProviderErrors},
     Blake  : DifficultySamples,
     Sha3   : DifficultySamples]

HeaderRecords ==
    {ProofOfWork(U64(1), U64(1), U64(1), algo, data) :
        algo \in PowAlgorithm, data \in DataSamples}

InitAch ==
    /\ discriminant = DeclaredDiscriminants
    /\ provider \in ProviderOutcomes
    /\ x \in HeaderRecords
    /\ y = ProofOfWorkDefault
    /\ added = DifficultyDefault
    /\ NoCalls
    /\ NoChain

\* ProofOfWork::achieved_difficulty(&header)
AchievedDifficulty ==
    /\ achieved = None
    /\ LET r == achieved_difficulty([pow |-> x])
       IN  achieved' = [tag |-> "Called", calls |-> r.calls, ret |-> r.ret]
    /\ UNCHANGED <<inputs, chainVars, cmp_xy, cmp_yx, total_x, total_y,
                   derived, applied, fresh, enc_x, enc_y>>

NextAch == AchievedDifficulty

SpecAch == InitAch /\ [][NextAch]_vars

EncMagnitudes ==
    {U64(0), U64(65), U64(ByteBase), U64(257), U64Max}

EncRecords ==
    {ProofOfWork(m, b, U64(1), algo, data) :
        m, b \in EncMagnitudes, algo \in PowAlgorithm, data \in DataSamples}

\* Records with another target, some of them equal to an EncRecord in every
\* other field.
EncOthers ==
    {ProofOfWork(m, b, U64(2), algo, data) :
        m, b \in {U64(0), U64(ByteBase)}, algo \in PowAlgorithm,
        data \in {<<>>, <<ByteBase - 1>>}}

\* `pow_algo as u8`: distinct variants have distinct discriminants, and
\* Blake's is 1.
Discriminants ==
    {d \in [PowAlgorithm -> 0..2] :
        /\ d["Blake"] = DeclaredDiscriminants["Blake"]
        /\ \A a1, a2 \in PowAlgorithm : a1 # a2 => d[a1] # d[a2]}

InitEnc ==
    /\ discriminant \in Discriminants
    /\ provider = IdleProvider
    /\ x \in EncRecords
    /\ y \in EncOthers
    /\ added = DifficultyDefault
    /\ NoCalls
    /\ NoChain

\* x.to_bytes()
ToBytesX ==
    /\ enc_x = None
    /\ enc_x' = [tag |-> "Ok", val |-> to_bytes(x)]
    /\ UNCHANGED <<inputs, chainVars, cmp_xy, cmp_yx, total_x, total_y,
                   derived, applied, fresh, enc_y, achieved>>

\* y.to_bytes()
ToBytesY ==
    /\ enc_y = None
    /\ enc_y' = [tag |-> "Ok", val |-> to_bytes(y)]
    /\ UNCHANGED <<inputs, chainVars, cmp_xy, cmp_yx, total_x, total_y,
                   derived, applied, fresh, enc_x, achieved>>

NextEnc == ToBytesX \/ ToBytesY

SpecEnc == InitEnc /\ [][NextEnc]_vars

\* Five of the CheckPrimes: their product exceeds 2^64, so two numbers below
\* 2^64 with the same residues modulo all of them are equal.
U64CheckPrimes == {p \in CheckPrimes : p > 32700}

\* The residue modulo p of the number whose little-endian bytes are
\* s[from .. from + U64Bytes - 1].
BytesLEMod(s, from, p) ==
    LET h[i \in 0..U64Bytes] ==
            IF i = 0 THEN 0
            ELSE (h[i - 1] * ByteBase + s[from + U64Bytes - i]) % p
    IN  h[U64Bytes]

\* C7: to_bytes(R) is one byte holding R's algorithm discriminant (1 for
\* Blake), then the Monero accumulator as 8 little-endian bytes, then the
\* Blake accumulator as 8 little-endian bytes, then R's auxiliary data
\* unmodified with no length prefix; its length is 17 + len(pow_data) and
\* target_difficulty contributes no bytes. (65, 257) under Blake encodes as
\* [1, 65,0,0,0,0,0,0,0, 1,1,0,0,0,0,0,0].
C7_ByteLayout ==
    /\ enc_x.tag = "Ok" =>
        LET e == enc_x.val
        IN  /\ Len(e) = 1 + 2 * U64Bytes + Len(x.pow_data)
            /\ \A i \in 1..Len(e) : e[i] \in 0..(ByteBase - 1)
            /\ e[1] = discriminant[x.pow_algo]
            /\ x.pow_algo = "Blake" => e[1] = 1
            /\ \A p \in U64CheckPrimes :
                /\ BytesLEMod(e, 2, p) =
                        LimbsMod(x.accumulated_monero_difficulty, p)
                /\ BytesLEMod(e, 2 + U64Bytes, p) =
                        LimbsMod(x.accumulated_blake_difficulty, p)
            /\ SubSeq(e, 2 + 2 * U64Bytes, Len(e)) = x.pow_data
            /\ to_bytes([x EXCEPT !.target_difficulty = U64Max]) = e
    /\ to_bytes(ProofOfWork(U64(65), U64(257), U64(1), "Blake", <<>>))
            = <<1, 65, 0, 0, 0, 0, 0, 0, 0, 1, 1, 0, 0, 0, 0, 0, 0>>
    /\ to_bytes(ProofOfWork(U64(0), U64(0), U64(1), "Blake", <<>>))
            = <<1, 0, 0, 0, 0, 0, 0, 0, 0, 0, 0, 0, 0, 0, 0, 0, 0>>

\* The record of test::to_bytes with one byte of auxiliary data was encoded:
\* 18 bytes, the last of them the auxiliary byte.
C7_Witness ==
    /\ enc_x.tag = "Ok"
    /\ x.accumulated_monero_difficulty = U64(65)
    /\ x.accumulated_blake_difficulty = U64(257)
    /\ x.pow_algo = "Blake"
    /\ x.pow_data = <<ByteBase - 1>>
    /\ Len(enc_x.val) = 18
    /\ enc_x.val[18] = ByteBase - 1

\* What the encoding is claimed to determine.
EncodedFields(pow) ==
    <<pow.pow_algo, pow.accumulated_monero_difficulty,
      pow.accumulated_blake_difficulty, pow.pow_data>>

\* C8: to_bytes is deterministic and injective on (algorithm tag, Monero
\* accumulator, Blake accumulator, auxiliary data): two encodings of records
\* equal in these four are identical bytes, and two records that differ in
\* the tag, in either accumulator or in the auxiliary data (its length
\* included) have different encodings.
C8_Injective ==
    /\ (enc_x.tag = "Ok" /\ enc_y.tag = "Ok") =>
            ((enc_x.val = enc_y.val) <=> (EncodedFields(x) = EncodedFields(y)))
    /\ enc_x.tag = "Ok" => enc_x.val = to_bytes(x)

\* Two records that differ only in the algorithm tag (and the target) were
\* encoded, to different bytes.
C8_Witness ==
    /\ enc_x.tag = "Ok" /\ enc_y.tag = "Ok"
    /\ x.pow_algo = "Monero" /\ y.pow_algo = "Sha3"
    /\ x.accumulated_monero_difficulty = y.accumulated_monero_difficulty
    /\ x.accumulated_blake_difficulty = y.accumulated_blake_difficulty
    /\ x.pow_data = y.pow_data
    /\ enc_x.val # enc_y.val

\* Two records equal in the four encoded fields and different in the target
\* were encoded, to the same bytes.
C8_WitnessSame ==
    /\ enc_x.tag = "Ok" /\ enc_y.tag = "Ok"
    /\ EncodedFields(x) = EncodedFields(y)
    /\ x.target_difficulty # y.target_difficulty
    /\ enc_x.val = enc_y.val

\* ------------------------------------------------------------------------
\* Spec: a chain of records, each produced from its predecessor.
\* ------------------------------------------------------------------------

\* The first record of a chain: new(algo), or a record with both
\* accumulators at zero.
GenesisRecords ==
    {new(algo) : algo \in PowAlgorithm}
        \cup {ProofOfWork(U64(0), U64(0), U64(1), algo, <<>>) :
                algo \in PowAlgorithm}

Init ==
    /\ discriminant = DeclaredDiscriminants
    /\ provider = IdleProvider
    /\ x = ProofOfWorkDefault
    /\ y = ProofOfWorkDefault
    /\ added = DifficultyDefault
    /\ NoCalls
    /\ chain \in {<<g>> : g \in GenesisRecords}
    /\ diffs = <<>>
    /\ panicked = FALSE

Tip == chain[Len(chain)]

\* The next record is new_from_difficulty(&tip, d): it keeps the tip's
\* algorithm. A fatal failure ends the process.
ChainDerive ==
    /\ ~panicked
    /\ Len(chain) <= MaxChain
    /\ \E d \in DifficultySamples :
        LET r == new_from_difficulty(Tip, d)
        IN  IF r.tag = "Panic"
            THEN panicked' = TRUE /\ UNCHANGED <<chain, diffs>>
            ELSE /\ chain' = Append(chain, r.val)
                 /\ diffs' = Append(diffs, [algo |-> Tip.pow_algo, difficulty |-> d])
                 /\ UNCHANGED panicked
    /\ UNCHANGED <<inputs, cmp_xy, cmp_yx, total_x, total_y,
                   derived, applied, fresh, enc_x, enc_y, achieved>>

\* The next record is new(algo) after add_difficulty(&tip, d).
ChainApply ==
    /\ ~panicked
    /\ Len(chain) <= MaxChain
    /\ \E algo \in PowAlgorithm, d \in DifficultySamples :
        LET r == add_difficulty(new(algo), Tip, d)
        IN  IF r.tag = "Panic"
            THEN panicked' = TRUE /\ UNCHANGED <<chain, diffs>>
            ELSE /\ chain' = Append(chain, r.val)
                 /\ diffs' = Append(diffs, [algo |-> Tip.pow_algo, difficulty |-> d])
                 /\ UNCHANGED panicked
    /\ UNCHANGED <<inputs, cmp_xy, cmp_yx, total_x, total_y,
                   derived, applied, fresh, enc_x, enc_y, achieved>>

Next == ChainDerive \/ ChainApply

Spec == Init /\ [][Next]_vars

\* C4: along a chain in which each record's accumulators are produced from
\* its predecessor by new_from_difficulty or add_difficulty, with any added
\* difficulties and any algorithm tags, each accumulator of a record is at
\* least the same accumulator of every ancestor: no accumulator decreases.
C4_AccumulatorsNeverDecrease ==
    \A i, j \in 1..Len(chain) :
        i < j =>
            /\ Leq(chain[i].accumulated_monero_difficulty,
                   chain[j].accumulated_monero_difficulty)
            /\ Leq(chain[i].accumulated_blake_difficulty,
                   chain[j].accumulated_blake_difficulty)

\* A chain of three records under two algorithms in which both accumulators
\* grew, the Blake one by Sha3 work up to u64::MAX.
C4_Witness ==
    /\ Len(chain) = 3
    /\ diffs[1].algo = "Monero" /\ diffs[2].algo = "Sha3"
    /\ Less(chain[1].accumulated_monero_difficulty,
            chain[2].accumulated_monero_difficulty)
    /\ chain[3].accumulated_blake_difficulty = U64Max
    /\ chain[3].accumulated_monero_difficulty =
            chain[2].accumulated_monero_difficulty

\* ------------------------------------------------------------------------
\* Claims about the constructor.
\* ------------------------------------------------------------------------

C12_DeriveCopiesFields ==
    /\ derived.tag = "Ok" =>
        /\ derived.val.target_difficulty = x.target_difficulty
        /\ derived.val.pow_algo = x.pow_algo
        /\ derived.val.pow_data = x.pow_data
    /\ LET r == new_from_difficulty(
                    ProofOfWork(U64(420), U64(42), U64Max, "Sha3",
                                <<0, ByteBase - 1>>), U64(80))
       IN  /\ r.tag = "Ok"
           /\ r.val.target_difficulty = U64Max
           /\ r.val.pow_algo = "Sha3"
           /\ r.val.pow_data = <<0, ByteBase - 1>>

\* A record was derived from a Sha3 predecessor whose target and auxiliary
\* data are not those of a fresh record; its accumulators are not the
\* predecessor's.
C12_Witness ==
    /\ derived.tag = "Ok"
    /\ x.pow_algo = "Sha3"
    /\ x.target_difficulty = U64(2)
    /\ x.pow_data = <<ByteBase - 1>>
    /\ added = U64(1)
    /\ derived.val # x
    /\ derived.val.pow_data = <<ByteBase - 1>>
    /\ derived.val.target_difficulty = U64(2)

\* ------------------------------------------------------------------------
\* Claims about sums along the chain.
\* ------------------------------------------------------------------------

\* The residue modulo p of the sum of the difficulties added on top of the
\* blocks before block n whose algorithm is one of algos.
AddedMod(n, algos, p) ==
    LET f[k \in 0..(n - 1)] ==
            IF k = 0 THEN 0
            ELSE (f[k - 1] + (IF chain[k].pow_algo \in algos
                              THEN LimbsMod(diffs[k].difficulty, p)
                              ELSE 0)) % p
    IN  f[n - 1]

\* C13: along a chain built from a genesis record, block k+1's accumulators
\* filled from block k's record and a difficulty d_k, with no sum above the
\* 64-bit maximum: block n's Monero accumulator is the genesis Monero
\* accumulator plus the sum of d_k over the predecessors k < n whose
\* algorithm is Monero, and block n's Blake accumulator is the genesis Blake
\* accumulator plus the sum of d_k over the predecessors whose algorithm is
\* Blake or Sha3. Nothing is attributed to the algorithm of the receiving
\* block. The sums are below 2^128, so their residues modulo the
\* CheckPrimes fix them.
C13_ChainSums ==
    /\ Len(diffs) = Len(chain) - 1
    /\ \A n \in 1..Len(chain) : \A p \in CheckPrimes :
        /\ LimbsMod(chain[n].accumulated_monero_difficulty, p) =
                (LimbsMod(chain[1].accumulated_monero_difficulty, p)
                    + AddedMod(n, {"Monero"}, p)) % p
        /\ LimbsMod(chain[n].accumulated_blake_difficulty, p) =
                (LimbsMod(chain[1].accumulated_blake_difficulty, p)
                    + AddedMod(n, {"Blake", "Sha3"}, p)) % p

\* new(Monero), then a Sha3 block that received 65535 of Monero work, then a
\* Blake block that received 1 of Sha3 work: (65536, 2).
C13_Witness ==
    /\ Len(chain) = 3
    /\ chain[1] = new("Monero")
    /\ chain[2].pow_algo = "Sha3"
    /\ chain[3].pow_algo = "Blake"
    /\ diffs[1].difficulty = U64(LimbBase - 1)
    /\ diffs[2].difficulty = U64(1)
    /\ chain[3].accumulated_monero_difficulty = U64(LimbBase)
    /\ chain[3].accumulated_blake_difficulty = U64(2)

\* ------------------------------------------------------------------------
\* Claims relating the total-work helper to the comparator.
\* ------------------------------------------------------------------------

\* C14: the total-work helper never contradicts the partial order: if
\* partial_cmp(a, b) is GreaterThan then a's total is >= b's, if it is
\* LessThan then a's total is <= b's, if it is Equal the totals are equal;
\* so a pair the helper orders strictly against one of these is one the
\* comparator left Indeterminate.
C14_TotalAgreesWithOrder ==
    (cmp_xy.tag = "Ok" /\ total_x.tag = "Ok" /\ total_y.tag = "Ok") =>
        LET tx == total_x.val.value
            ty == total_y.val.value
        IN  /\ cmp_xy.val = "GreaterThan" => Leq(ty, tx)
            /\ cmp_xy.val = "LessThan" => Leq(tx, ty)
            /\ cmp_xy.val = "Equal" => tx = ty
            /\ Less(tx, ty) => cmp_xy.val \in {"LessThan", "Indeterminate"}
            /\ Less(ty, tx) => cmp_xy.val \in {"GreaterThan", "Indeterminate"}

\* x = (u64::MAX, u64::MAX) was found GreaterThan y = (u64::MAX, 1) and both
\* totals were computed: x's is the larger and needs the top limb.
C14_Witness ==
    /\ cmp_xy.tag = "Ok" /\ total_x.tag = "Ok" /\ total_y.tag = "Ok"
    /\ cmp_xy.val = "GreaterThan"
    /\ x.accumulated_monero_difficulty = U64Max
    /\ x.accumulated_blake_difficulty = U64Max
    /\ y.accumulated_monero_difficulty = U64Max
    /\ y.accumulated_blake_difficulty = U64(1)
    /\ Less(total_y.val.value, total_x.val.value)
    /\ total_x.val.value[U128Limbs] # 0

\* An Indeterminate pair was ordered by the helper.
C14_WitnessIndeterminate ==
    /\ cmp_xy.tag = "Ok" /\ total_x.tag = "Ok" /\ total_y.tag = "Ok"
    /\ cmp_xy.val = "Indeterminate"
    /\ Less(total_x.val.value, total_y.val.value)

====
